---------------------------- MODULE Spec2Model ----------------------------
(***************************************************************************)
(* A model of pyvoussoir (src/voussoir/pagewarper.py, src/voussoir/cli.py):*)
(* Marker decoding, LayoutInfo geometry, the PageWarper marker-set and its *)
(* warp / size-estimation operations, and the command line flow.           *)
(*                                                                         *)
(* Floats are modelled as exact rationals <<n, d>> (d > 0, lowest terms);  *)
(* every value the model draws is a small dyadic or integer value, for     *)
(* which the float arithmetic of the code is exact.  An image is modelled  *)
(* by what the detection stage extracts from it: the sequence of candidate *)
(* squares in detection order, each with its (sub-pixel refined) corner    *)
(* points and the binarized 6x6 patch sampled through them.                *)
(***************************************************************************)
EXTENDS Integers, Sequences, FiniteSets, TLC

VARIABLES
    candidate,   \* Marker.create: the candidate square being decoded
    decoded,     \* Marker.create: its outcome (a Marker or the RuntimeError)
    max_ratio,   \* PageWarper.max_ratio
    image,       \* PageWarper.image
    markers,     \* PageWarper.markers : id -> Marker
    result,      \* outcome of the last PageWarper operation
    args,        \* cli: the argument dictionary
    pc,          \* cli: position in main / process
    files        \* cli: the image files on the disk

vars == <<candidate, decoded, max_ratio, image, markers, result, args, pc, files>>

\* Every variable holds a record tagged by a string field, so that "nothing
\* yet" and a value can be told apart.
None == "None"
NoCandidate == [kind |-> None]
NotDecoded == [op |-> None]
NoResult == [op |-> None]
NoImage == [type |-> "NoneType"]
NoArgs == [kind |-> None]
NoFiles == [f \in {} |-> None]
NoMarkers == [i \in {} |-> None]

-----------------------------------------------------------------------------
(* Exact rational arithmetic standing for float arithmetic.                *)

Abs(n) == IF n < 0 THEN -n ELSE n

RECURSIVE GCD(_, _)
GCD(a, b) == IF b = 0 THEN a ELSE GCD(b, a % b)

\* the rational n/d in lowest terms with a positive denominator
Q(n, d) ==
    LET s == IF d < 0 THEN -1 ELSE 1
        g == GCD(Abs(n), Abs(d))
    IN  <<(s * n) \div g, (s * d) \div g>>

R(n) == <<n, 1>>

RAdd(a, b) == Q(a[1] * b[2] + b[1] * a[2], a[2] * b[2])
RSub(a, b) == Q(a[1] * b[2] - b[1] * a[2], a[2] * b[2])
RMul(a, b) == Q(a[1] * b[1], a[2] * b[2])
RDiv(a, b) == Q(a[1] * b[2], a[2] * b[1])
RLess(a, b) == a[1] * b[2] < b[1] * a[2]
RLeq(a, b) == a[1] * b[2] <= b[1] * a[2]
RPos(a) == a[1] > 0
RAbs(a) == <<Abs(a[1]), a[2]>>

Zero == R(0)
Half == Q(1, 2)
Float(q) == [type |-> "float", value |-> q]

\* Python 3 round(): to the nearest integer, a tie going to the even one
PyRound(a) ==
    LET q == a[1] \div a[2]
        r == a[1] - q * a[2]
    IN  IF 2 * r < a[2] THEN q
        ELSE IF 2 * r > a[2] THEN q + 1
        ELSE IF q % 2 = 0 THEN q ELSE q + 1

\* numpy.linalg.norm of a 2-vector; exact where the length is rational
\* the integer square root, and the square root of a rational square
ISqrt(n) == CHOOSE k \in 0..n : k * k <= n /\ n < (k + 1) * (k + 1)
IsSquare(n) == ISqrt(n) * ISqrt(n) = n
RIsSquare(a) == a[1] >= 0 /\ IsSquare(a[1] * a[2])
RSqrt(a) == Q(ISqrt(a[1] * a[2]), a[2])

\* numpy.linalg.norm of a 2-vector (exact where the length is rational)
NormSq(v) == RAdd(RMul(v[1], v[1]), RMul(v[2], v[2]))
Norm(v) == RSqrt(NormSq(v))

VSub(p, q) == <<RSub(p[1], q[1]), RSub(p[2], q[2])>>
VAdd(p, q) == <<RAdd(p[1], q[1]), RAdd(p[2], q[2])>>
Pt(x, y) == <<R(x), R(y)>>

RECURSIVE RSum(_)
RSum(s) == IF s = <<>> THEN Zero ELSE RAdd(Head(s), RSum(Tail(s)))
\* numpy.mean
Mean(s) == RDiv(RSum(s), R(Len(s)))
\* numpy.std: the root of the mean squared deviation
Variance(s) ==
    LET m == Mean(s)
    IN  Mean([i \in 1..Len(s) |-> RMul(RSub(s[i], m), RSub(s[i], m))])
Std(s) == RSqrt(Variance(s))


-----------------------------------------------------------------------------
(* Outcomes: a Python call either returns a value or raises.               *)

Return(v) == [raised |-> FALSE, value |-> v]
\* index: the number formatted into the message, -1 when it has none
Raise(type, msg, index) == [raised |-> TRUE, type |-> type, error |-> msg, index |-> index]

-----------------------------------------------------------------------------
(* OpenCV / numpy primitives used by the code.                             *)

Cells == (0..5) \X (0..5)

\* cv2.rotate on a square matrix: dst[i][j] in terms of src
cv2_rotate(m, code) ==
    [c \in Cells |->
        CASE code = "ROTATE_90_CLOCKWISE"        -> m[<<5 - c[2], c[1]>>]
          [] code = "ROTATE_180"                 -> m[<<5 - c[1], 5 - c[2]>>]
          [] code = "ROTATE_90_COUNTERCLOCKWISE" -> m[<<c[2], 5 - c[1]>>]]

\* np.roll(a, shift, axis=0): element i moves to position i + shift
np_roll_backwards(a, shift) == [i \in 1..Len(a) |-> a[((i - 1 + shift) % Len(a)) + 1]]

np_roll(a, shift) == [i \in 1..Len(a) |-> a[((i - 1 - shift) % Len(a)) + 1]]

\* np.logical_not on a uint8 cell: True exactly for 0
logical_not(v) == v = 0

\* np.packbits of a bit sequence of length <= 8: big-endian, zero padded
RECURSIVE packbits_from(_, _)
packbits_from(b, w) ==
    IF b = <<>> THEN 0
    ELSE (IF Head(b) THEN w ELSE 0) + packbits_from(Tail(b), w \div 2)
packbits(b) == packbits_from(b, 128)

\* An affine homography x' = a x + b y + tx, y' = c x + d y + ty.
Affine(a, b, c, d, tx, ty) ==
    [kind |-> "affine", a |-> a, b |-> b, c |-> c, d |-> d, tx |-> tx, ty |-> ty]

ApplyH(h, p) ==
    <<RAdd(RAdd(RMul(h.a, p[1]), RMul(h.b, p[2])), h.tx),
      RAdd(RAdd(RMul(h.c, p[1]), RMul(h.d, p[2])), h.ty)>>

Det2(u, v) == RSub(RMul(u[1], v[2]), RMul(u[2], v[1]))

\* the affine map with linear part (a b; c d) that takes p to q
affine_through(p, q, a, b, c, d) ==
    Affine(a, b, c, d,
           RSub(q[1], RAdd(RMul(a, p[1]), RMul(b, p[2]))),
           RSub(q[2], RAdd(RMul(c, p[1]), RMul(d, p[2]))))

\* h, if it also takes the third source point to the third target point
affine_if_exact(h, src, dst) ==
    IF ApplyH(h, src[3]) = dst[3] THEN h ELSE [kind |-> "projective"]

\* u, v: the edges of src at its first point; U, V: those of dst
solve_homography(src, dst, u, v, U, V, det) ==
    IF det = Zero THEN [kind |-> "degenerate"]
    ELSE affine_if_exact(
             affine_through(src[1], dst[1],
                 RDiv(RSub(RMul(U[1], v[2]), RMul(V[1], u[2])), det),
                 RDiv(RSub(RMul(V[1], u[1]), RMul(U[1], v[1])), det),
                 RDiv(RSub(RMul(U[2], v[2]), RMul(V[2], u[2])), det),
                 RDiv(RSub(RMul(V[2], u[1]), RMul(U[2], v[1])), det)),
             src, dst)

\* cv2.findHomography(src, dst) for 4 correspondences: the unique H with
\* dst[i] = H src[i].  Solved exactly where H is affine (src[3] - src[1] =
\* (src[2] - src[1]) + (src[4] - src[1]) carries over to dst); collinear
\* source points give no homography; a properly projective H is outside
\* the arithmetic of this model and is reported as such.
findHomography(src, dst) ==
    solve_homography(src, dst,
        VSub(src[2], src[1]), VSub(src[4], src[1]),
        VSub(dst[2], dst[1]), VSub(dst[4], dst[1]),
        Det2(VSub(src[2], src[1]), VSub(src[4], src[1])))

-----------------------------------------------------------------------------
(* class Marker                                                            *)

\* (mutant: a table with one entry mistyped, 9 for 3)
id_lookup_mistyped == <<8, 2, 4, 15, 6, 13, 11, 1, 0, 10, 12, 7, 14, 5, 9, 9>>

id_lookup == <<8, 2, 4, 15, 6, 13, 11, 1, 0, 10, 12, 7, 14, 5, 3, 9>>

\* (mutant: the two quarter-turn codes exchanged)
rotations_exchanged ==
    [k \in 0..3 |->
        CASE k = 0 -> [text |-> "0", code |-> None]
          [] k = 1 -> [text |-> "90", code |-> "ROTATE_90_CLOCKWISE"]
          [] k = 2 -> [text |-> "180", code |-> "ROTATE_180"]
          [] k = 3 -> [text |-> "270", code |-> "ROTATE_90_COUNTERCLOCKWISE"]]

rotations ==
    [k \in 0..3 |->
        CASE k = 0 -> [text |-> "0", code |-> None]
          [] k = 1 -> [text |-> "90", code |-> "ROTATE_90_COUNTERCLOCKWISE"]
          [] k = 2 -> [text |-> "180", code |-> "ROTATE_180"]
          [] k = 3 -> [text |-> "270", code |-> "ROTATE_90_CLOCKWISE"]]

Marker(mid, rotation, bits, points, homography) ==
    [id |-> mid, rotation |-> rotation, bits |-> bits, points |-> points,
     homography |-> homography]

\* marker[np.ix_([1, 4], [1, 4])] != 255 : the four orientation cells
orientation_cells(marker) ==
    [i \in {0, 1} \X {0, 1} |->
        marker[<<IF i[1] = 0 THEN 1 ELSE 4, IF i[2] = 0 THEN 1 ELSE 4>>] # 255]

\* (mutant: the inner ring is not checked)
check_rotation_no_inner(marker) ==
    IF \E c \in Cells : (c[1] \in {0, 5} \/ c[2] \in {0, 5}) /\ marker[c] # 0
    THEN Raise("RuntimeError", "Marker doesnt have a black border", -1)
    ELSE
      LET orientation == orientation_cells(marker)
      IN  IF Cardinality({i \in DOMAIN orientation : orientation[i]}) # 1
          THEN Raise("RuntimeError", "Multiple or no orientation markers found", -1)
          ELSE IF orientation[<<0, 1>>] THEN Return(1)
          ELSE IF orientation[<<1, 1>>] THEN Return(2)
          ELSE IF orientation[<<1, 0>>] THEN Return(3)
          ELSE Return(0)

check_rotation(marker) ==
    IF \E c \in Cells : (c[1] \in {0, 5} \/ c[2] \in {0, 5}) /\ marker[c] # 0
    THEN Raise("RuntimeError", "Marker doesnt have a black border", -1)
    ELSE IF ~ (/\ \A c \in {1, 4} \X {2, 3} : marker[c] # 0
               /\ \A c \in {2, 3} \X {1, 4} : marker[c] # 0)
    THEN Raise("RuntimeError", "Marker doesnt have a white inner", -1)
    ELSE
      LET orientation == orientation_cells(marker)
      IN  IF Cardinality({i \in DOMAIN orientation : orientation[i]}) # 1
          THEN Raise("RuntimeError", "Multiple or no orientation markers found", -1)
          ELSE IF orientation[<<0, 1>>] THEN Return(1)
          ELSE IF orientation[<<1, 1>>] THEN Return(2)
          ELSE IF orientation[<<1, 0>>] THEN Return(3)
          ELSE Return(0)

\* default of the parameter size of Marker.create
size == 180

\* dst_points of Marker.create, as (x, y) points of the canonical patch
create_dst_points == <<Pt(0, 0), Pt(0, size), Pt(size, size), Pt(size, 0)>>

\* np.logical_not(marker[2:4, 2:4]) : the 2x2 payload, True for black
payload_bits(marker) ==
    <<<<logical_not(marker[<<2, 2>>]), logical_not(marker[<<2, 3>>])>>,
      <<logical_not(marker[<<3, 2>>]), logical_not(marker[<<3, 3>>])>>>>

\* Marker.create: the grid turned back by the detected rotation
normalize(marker, rotation) ==
    IF rotation # 0 THEN cv2_rotate(marker, rotations[rotation].code) ELSE marker

\* Marker.create(image, square).  The candidate stands for the two inputs:
\* cand.square are the corners as refined by cornerSubPix, cand.patch is the
\* 6x6 patch that warpPerspective / resize / threshold sample through them.
Marker_create(cand) ==
    LET src_points == cand.square
        homography == findHomography(src_points, create_dst_points)
        marker     == cand.patch
        rot        == check_rotation(marker)
    IN  IF rot.raised THEN rot
        ELSE
          LET rotation == rot.value
              turned   == normalize(marker, rotation)
              points   == IF rotation # 0
                          THEN np_roll(src_points, rotation)
                          ELSE src_points
              b        == payload_bits(turned)
              id_      == packbits(b[1] \o b[2]) \div 16
          IN  Return(Marker(id_lookup[id_ + 1], rotation, b, points, homography))

-----------------------------------------------------------------------------
(* class LayoutInfo                                                        *)

LayoutInfo(left, top, right, bottom, width, height, dpi) ==
    [left   |-> RAdd(left, Zero),
     top    |-> RAdd(top, Zero),
     right  |-> RAdd(right, width),
     bottom |-> RAdd(bottom, height),
     width  |-> width,
     height |-> height,
     dpi    |-> dpi]

\* the dict of get_dst_markers in insertion order, as <<id, point>> pairs
get_dst_markers(self, right) ==
    LET i == IF right THEN 1 ELSE 0
    IN  <<<<0 + 4 * i, <<Zero, Zero>>>>,
          <<1 + 4 * i, <<self.width, Zero>>>>,
          <<2 + 4 * i, <<self.width, self.height>>>>,
          <<3 + 4 * i, <<Zero, self.height>>>>>>

convert_marker(self, dst_marker) ==
    <<RMul(RSub(dst_marker[1], self.left), self.dpi),
      RMul(RSub(dst_marker[2], self.top), self.dpi)>>

get_size(self) ==
    <<PyRound(RMul(RSub(self.right, self.left), self.dpi)),
      PyRound(RMul(RSub(self.bottom, self.top), self.dpi))>>

-----------------------------------------------------------------------------
(* class PageWarper                                                        *)

\* an image: its pixel size and the candidate squares that _get_squares
\* finds in it, in detection order
Image(shape, squares) == [type |-> "ndarray", shape |-> shape, squares |-> squares]

\* (mutant: an id already in the dict is kept, first-detected wins)
RECURSIVE build_markers_first_wins_from(_, _)
build_markers_first_wins_from(squares, found) ==
    IF squares = <<>> THEN found
    ELSE LET marker == Marker_create(Head(squares))
         IN  IF marker.raised
             THEN build_markers_first_wins_from(Tail(squares), found)
             ELSE build_markers_first_wins_from(Tail(squares),
                      found @@ (marker.value.id :> marker.value))
build_markers_first_wins(img) == build_markers_first_wins_from(img.squares, NoMarkers)

\* the loop of __build_markers: markers[marker.id] = marker, a RuntimeError
\* of Marker.create skips the square
RECURSIVE build_markers_from(_, _)
build_markers_from(squares, found) ==
    IF squares = <<>> THEN found
    ELSE LET marker == Marker_create(Head(squares))
         IN  IF marker.raised
             THEN build_markers_from(Tail(squares), found)
             ELSE build_markers_from(Tail(squares),
                      (marker.value.id :> marker.value) @@ found)

build_markers(img) == build_markers_from(img.squares, NoMarkers)

\* _get_points: (dst_points, src_points) = (first corner of each marker, the
\* layout's target pixel point), or the RuntimeError of the first id missing
RECURSIVE get_points_from(_, _, _, _, _)
get_points_from(self_markers, layout, items, dst_points, src_points) ==
    IF items = <<>> THEN Return(<<dst_points, src_points>>)
    ELSE LET i == Head(items)[1]
             dst_marker == Head(items)[2]
         IN  IF i \notin DOMAIN self_markers
             THEN Raise("RuntimeError", "Index {0} does not exist in source markers", i)
             ELSE get_points_from(self_markers, layout, Tail(items),
                      Append(dst_points, self_markers[i].points[1]),
                      Append(src_points, convert_marker(layout, dst_marker)))

\* (mutant: an id missing from the marker-set is given the origin as its
\* position instead of raising)
RECURSIVE get_points_defaulting_from(_, _, _, _, _)
get_points_defaulting_from(self_markers, layout, items, dst_points, src_points) ==
    IF items = <<>> THEN Return(<<dst_points, src_points>>)
    ELSE get_points_defaulting_from(self_markers, layout, Tail(items),
             Append(dst_points,
                    IF Head(items)[1] \in DOMAIN self_markers
                    THEN self_markers[Head(items)[1]].points[1]
                    ELSE <<Zero, Zero>>),
             Append(src_points, convert_marker(layout, Head(items)[2])))

get_points_defaulting(self_markers, layout, dst_markers) ==
    get_points_defaulting_from(self_markers, layout, dst_markers, <<>>, <<>>)

\* (mutant: the two point lists are handed back the other way round, so
\* that the homography is estimated from the targets to the markers)
swapped_points(pts) ==
    IF pts.raised THEN pts ELSE Return(<<pts.value[2], pts.value[1]>>)

get_points_swapped(self_markers, layout, dst_markers) ==
    swapped_points(get_points_from(self_markers, layout, dst_markers, <<>>, <<>>))

get_points(self_markers, layout, dst_markers) ==
    get_points_from(self_markers, layout, dst_markers, <<>>, <<>>)

\* cv2.warpPerspective(src, M, dsize): the set of outcomes a build of OpenCV
\* can produce.  A dsize with both sides positive gives an image of exactly
\* that size.  An empty dsize is replaced by the size of src
\* (dsize.area() == 0 in OpenCV 2/3, dsize.empty() in OpenCV 4); a negative
\* side with non-zero area is rejected by the builds that test the area.
\* Without a source image the call fails; what findHomography hands on for
\* collinear source points, and a matrix that cannot be inverted (target
\* points that coincide), may be refused or used.
warped_image(src, M, shape) ==
    Return([type |-> "ndarray", shape |-> shape, homography |-> M,
            source_shape |-> src.shape])

singular(M) ==
    \/ M.kind = "degenerate"
    \/ M.kind = "affine" /\ RSub(RMul(M.a, M.d), RMul(M.b, M.c)) = Zero

warpPerspective(src, M, dsize) ==
    IF src.type = "NoneType"
    THEN {Raise("cv2.error", "warpPerspective", -1)}
    ELSE (IF singular(M) THEN {Raise("cv2.error", "warpPerspective", -1)} ELSE {})
         \cup (IF dsize[1] > 0 /\ dsize[2] > 0 THEN {warped_image(src, M, dsize)}
               ELSE IF dsize[1] * dsize[2] = 0 THEN {warped_image(src, M, src.shape)}
               ELSE {warped_image(src, M, src.shape),
                     Raise("cv2.error", "warpPerspective", -1)})

\* get_warped_image: the set of its possible outcomes
get_warped_image(self_markers, self_image, layout, right) ==
    LET dst_markers == get_dst_markers(layout, right)
        pts == get_points(self_markers, layout, dst_markers)
    IN  IF pts.raised THEN {pts}
        ELSE LET dst_points == pts.value[1]
                 src_points == pts.value[2]
                 homography == findHomography(dst_points, src_points)
             IN  warpPerspective(self_image, homography, get_size(layout))

\* _warp(m, s): the points s mapped through the homography m
warp(m, s) == [i \in 1..Len(s) |-> ApplyH(m, s[i])]

\* (src_points > 0) * 1.0
unit(p) == <<IF RPos(p[1]) THEN R(1) ELSE Zero, IF RPos(p[2]) THEN R(1) ELSE Zero>>

\* the two measuring loops of guess_size: per marker two width edges
\* (tp[3] - tp[0], tp[2] - tp[1]) and two height edges (tp[2] - tp[3],
\* tp[1] - tp[0]) of its corners mapped through the homography
RECURSIVE edge_lengths(_, _, _, _)
edge_lengths(self_markers, homography, items, which) ==
    IF items = <<>> THEN <<>>
    ELSE LET m  == self_markers[Head(items)[1]]
             tp == warp(homography, m.points)
             e  == IF which = "widths"
                   THEN <<Norm(VSub(tp[4], tp[1])), Norm(VSub(tp[3], tp[2]))>>
                   ELSE <<Norm(VSub(tp[3], tp[4])), Norm(VSub(tp[2], tp[1]))>>
         IN  e \o edge_lengths(self_markers, homography, Tail(items), which)

\* whether every edge measured has a rational length
edges_rational(self_markers, homography, items) ==
    \A c \in 1..Len(items) :
        LET tp == warp(homography, self_markers[items[c][1]].points)
        IN  \A e \in {<<4, 1>>, <<3, 2>>, <<3, 4>>, <<2, 1>>} :
                RIsSquare(NormSq(VSub(tp[e[1]], tp[e[2]])))

\* the return value of guess_size from the edges measured
size_estimate(marker_size, widths, heights) ==
    IF ~ RIsSquare(Variance(widths)) \/ ~ RIsSquare(Variance(heights))
    THEN Raise("outside-model", "irrational length", -1)
    ELSE IF Mean(widths) = Zero \/ Mean(heights) = Zero
    THEN Raise("outside-model", "division by zero", -1)
    ELSE Return(<<<<RDiv(marker_size, Mean(widths)), RDiv(marker_size, Mean(heights))>>,
                  <<Std(widths), Std(heights)>>>>)

\* guess_size from the homography on: estimates whose arithmetic leaves the
\* rationals (a projective homography, an irrational length) are reported
\* as outside the model
measure_markers(self_markers, dst_markers, homography) ==
    IF homography.kind # "affine"
    THEN Raise("outside-model", homography.kind, -1)
    ELSE IF ~ edges_rational(self_markers, homography, dst_markers)
    THEN Raise("outside-model", "irrational length", -1)
    ELSE size_estimate(Half,
             edge_lengths(self_markers, homography, dst_markers, "widths"),
             edge_lengths(self_markers, homography, dst_markers, "heights"))

\* guess_size after dst_markers is built: the RuntimeError of the first
\* required id missing, else the homography from the first corners of the
\* markers (dst_points) to the unit square (src_points) and the measuring
guess_size_of(self_markers, dst_markers) ==
    IF \E c \in 1..Len(dst_markers) : dst_markers[c][1] \notin DOMAIN self_markers
    THEN Raise("RuntimeError", "Index {0} does not exist in source markers",
               Head(SelectSeq(dst_markers,
                              LAMBDA it : it[1] \notin DOMAIN self_markers))[1])
    ELSE measure_markers(self_markers, dst_markers,
             findHomography(
                 [c \in 1..Len(dst_markers) |-> self_markers[dst_markers[c][1]].points[1]],
                 [c \in 1..Len(dst_markers) |-> unit(dst_markers[c][2])]))

\* guess_size(right): ((width, height), (std of widths, std of heights))
guess_size(self_markers, right) ==
    guess_size_of(self_markers,
        get_dst_markers(LayoutInfo(Zero, Zero, Zero, Zero, R(1), R(1), R(600)), right))

\* (mutant: the common height is taken from the left page alone)
common_height_left(left_size, right_size) == left_size[1][2]

\* common_height of guess_layouts
common_height(left_size, right_size) ==
    RMul(RAdd(left_size[1][2], right_size[1][2]), Half)

\* guess_layouts once both sizes are guessed (an exception of guess_size
\* passes through, the left one first)
layouts_from(left_size, right_size, left, top, right, bottom, dpi) ==
    IF left_size.raised THEN left_size
    ELSE IF right_size.raised THEN right_size
    ELSE Return(<<LayoutInfo(left, top, right, bottom, left_size.value[1][1],
                             common_height(left_size.value, right_size.value), dpi),
                  LayoutInfo(left, top, right, bottom, right_size.value[1][1],
                             common_height(left_size.value, right_size.value), dpi)>>)

guess_layouts(self_markers, left, top, right, bottom, dpi) ==
    layouts_from(guess_size(self_markers, FALSE), guess_size(self_markers, TRUE),
                 left, top, right, bottom, dpi)

-----------------------------------------------------------------------------
(* Input glyphs: what the camera sees and the detection stage hands on.     *)

MaxFlips == 1

\* the printed glyph of a 4-bit payload, upright: black border, white inner
\* ring with the black orientation cell at (1,1), payload in the centre
\* (black = 1, raster order, cell (2,2) the most significant bit)
Glyph(payload) ==
    [c \in Cells |->
        IF c[1] \in {0, 5} \/ c[2] \in {0, 5} THEN 0
        ELSE IF c = <<1, 1>> THEN 0
        ELSE IF c[1] \in {1, 4} \/ c[2] \in {1, 4} THEN 255
        ELSE LET w == CASE c = <<2, 2>> -> 8 [] c = <<2, 3>> -> 4
                        [] c = <<3, 2>> -> 2 [] c = <<3, 3>> -> 1
             IN  IF (payload \div w) % 2 = 1 THEN 0 ELSE 255]

\* a grid seen after k clockwise quarter turns
RECURSIVE Turned(_, _)
Turned(g, k) ==
    IF k = 0 THEN g
    ELSE LET t == Turned(g, k - 1) IN [c \in Cells |-> t[<<5 - c[2], c[1]>>]]

\* print defects: the cells of d read with the opposite colour
Damaged(g, d) == [c \in Cells |-> IF c \in d THEN 255 - g[c] ELSE g[c]]

RECURSIVE SubsetsUpTo(_, _)
SubsetsUpTo(S, n) ==
    IF n = 0 THEN {{}}
    ELSE LET prev == SubsetsUpTo(S, n - 1)
         IN  prev \cup {d \cup {c} : d \in prev, c \in S}

\* the corners of an axis-parallel square of side s at (x, y), in the order
\* top-left, bottom-left, bottom-right, top-right of the screen
ScreenCorners(x, y, s) == <<Pt(x, y), Pt(x, y + s), Pt(x + s, y + s), Pt(x + s, y)>>

\* A detected candidate: the glyph of payload, turned k quarter turns
\* clockwise on the screen and damaged in the cells d, found as a contour
\* that starts at corner `start` of ScreenCorners.  The patch is sampled
\* with square[1] at its top-left and square[2] at its bottom-left corner.
Candidate(payload, k, d, start, x, y, s) ==
    [kind   |-> "square",
     square |-> [i \in 1..4 |-> ScreenCorners(x, y, s)[((i - 1 + start) % 4) + 1]],
     patch  |-> Damaged(Turned(Glyph(payload), (k + start) % 4), d),
     glyph  |-> [payload |-> payload, turns |-> (k + start) % 4, damage |-> d]]

\* the same glyph found as a contour that runs the other way round: the
\* corners after the first are met in the opposite order, and the patch
\* sampled through them is the transposed one
Reflected(cand) ==
    [cand EXCEPT !.square = <<@[1], @[4], @[3], @[2]>>,
                 !.patch  = [c \in Cells |-> @[<<c[2], c[1]>>]]]

\* the defects drawn: up to MaxFlips cells anywhere, or any set of the four
\* orientation places
Defects ==
    SubsetsUpTo(Cells, MaxFlips) \cup SUBSET {<<1, 1>>, <<1, 4>>, <<4, 4>>, <<4, 1>>}


\* the glyph sheet: the payload printed for each id
PrintedPayload == <<8, 7, 1, 14, 2, 13, 4, 11, 0, 15, 9, 6, 10, 5, 12, 3>>

MaxMissing == 1

AllIds == 0..7

\* where the markers of a page sit on the screen (pixels): the page corner
\* (x, y), the distances W, H between marker corners, the marker side s.
\* With 60 pixels to the inch the left page is 6 x 9.5, the right 5 x 9.
PageGeometry(right) ==
    IF right THEN [x |-> 600, y |-> 100, W |-> 300, H |-> 540, s |-> 30]
    ELSE [x |-> 100, y |-> 100, W |-> 360, H |-> 570, s |-> 30]

\* the candidate of the printed marker `id`, all markers turned k quarter
\* turns, its contour starting at corner `start`
MarkerSquare(id, k, start) ==
    LET g == PageGeometry(id >= 4)
        x == g.x + (IF id % 4 \in {1, 2} THEN g.W ELSE 0)
        y == g.y + (IF id % 4 \in {2, 3} THEN g.H ELSE 0)
    IN  Candidate(PrintedPayload[id + 1], k, {}, start, x, y, g.s)

\* one square of a photograph taken as v describes
SeenSquare(id, v) ==
    IF v.extra = "reflected" THEN Reflected(MarkerSquare(id, v.turns, v.start))
    ELSE MarkerSquare(id, v.turns, v.start)

\* a square that is no marker (a white cell in its border)
JunkSquare == Candidate(5, 0, {<<0, 3>>}, 0, 400, 300, 25)

RECURSIVE Squares(_, _, _)
Squares(ids, v, S) ==
    IF ids = <<>> THEN <<>>
    ELSE LET id == Head(ids)
             rest == Squares(Tail(ids), v, S)
         IN  IF id \notin S THEN rest
             ELSE IF v.extra = "twice"
             THEN <<MarkerSquare(id, v.turns, (v.start + 2) % 4),
                    MarkerSquare(id, v.turns, v.start)>> \o rest
             ELSE IF v.extra = "junk"
             THEN <<MarkerSquare(id, v.turns, v.start), JunkSquare>> \o rest
             ELSE <<SeenSquare(id, v)>> \o rest

\* how a photograph varies: the turn of the markers, the corner the contours
\* start at, the detection order, and what else is detected: nothing, a
\* non-marker square after every marker and the unused marker 9, every
\* marker twice (its outer and its inner contour), or every contour running
\* the other way round
Plain    == [turns |-> 0, start |-> 0, order |-> <<0, 1, 2, 3, 4, 5, 6, 7>>, extra |-> "none"]
Littered == [turns |-> 1, start |-> 0, order |-> <<7, 6, 5, 4, 9, 3, 2, 1, 0>>, extra |-> "junk"]
Doubled  == [turns |-> 2, start |-> 1, order |-> <<0, 1, 2, 3, 4, 5, 6, 7>>, extra |-> "twice"]
Flipped  == [turns |-> 2, start |-> 0, order |-> <<4, 0, 5, 1, 6, 2, 7, 3>>, extra |-> "none"]
Mirrored == [turns |-> 3, start |-> 0, order |-> <<0, 1, 2, 3, 4, 5, 6, 7>>, extra |-> "reflected"]

Scene(S, v) ==
    Image(<<1200, 900>>, Squares(v.order, v, S \cup (IF v.extra = "junk" THEN {9} ELSE {})))

Images ==
    {Scene(AllIds \ M, Plain) : M \in SubsetsUpTo(AllIds, MaxMissing)}
    \cup {Scene(S, v) : S \in {AllIds, AllIds \ {5}}, v \in {Littered, Doubled, Flipped}}
    \cup {Scene(S, Plain) : S \in {{}, 0..3, 4..7}}
    \cup {Scene(AllIds, Mirrored)}

\* the layouts asked for: the 6 x 9.5 page at 600 dpi; a quarter-inch grid
\* whose pixel sizes fall on ties; offsets that leave no width; offsets that
\* leave a negative width; a page of no width
LayoutArgs(left, top, right, bottom, width, height, dpi) ==
    [left |-> left, top |-> top, right |-> right, bottom |-> bottom,
     width |-> width, height |-> height, dpi |-> dpi]

Layouts ==
    {LayoutArgs(Zero, Zero, Zero, Zero, R(6), Q(19, 2), R(600)),
     LayoutArgs(Q(-1, 2), Q(1, 4), Q(1, 2), Q(1, 4), Q(5, 4), Q(3, 4), R(2)),
     LayoutArgs(R(6), Zero, Zero, Zero, R(6), Q(19, 2), R(600)),
     LayoutArgs(R(7), Zero, Zero, Zero, R(6), Q(19, 2), R(600)),
     LayoutArgs(Zero, Zero, R(1), Zero, Zero, Q(19, 2), R(600))}

\* the arguments of guess_layouts: its defaults, and others
GuessArgs ==
    {[left |-> Zero, top |-> Half, right |-> Half, bottom |-> Half, dpi |-> R(600)],
     [left |-> Q(-1, 4), top |-> Zero, right |-> Q(1, 4), bottom |-> Zero, dpi |-> R(300)]}

-----------------------------------------------------------------------------
(* Specification of one PageWarper: PageWarper(), then set_image and the   *)
(* three operations in any order.                                          *)

InitWarper ==
    /\ max_ratio = Float(Q(22, 10))
    /\ image = NoImage
    /\ markers = NoMarkers
    /\ result = NoResult
    /\ candidate = NoCandidate /\ decoded = NotDecoded
    /\ args = NoArgs /\ pc = "idle" /\ files = NoFiles

SetImage ==
    \E img \in Images :
        /\ image' = img
        /\ markers' = build_markers(img)
        /\ result' = [op |-> "set_image"]
        /\ UNCHANGED <<candidate, decoded, max_ratio, args, pc, files>>

\* the caller builds a LayoutInfo and asks for one page
GetWarpedImage ==
    \E a \in Layouts, right \in BOOLEAN :
        LET layout == LayoutInfo(a.left, a.top, a.right, a.bottom, a.width, a.height, a.dpi)
        IN  \E out \in get_warped_image(markers, image, layout, right) :
                /\ result' = [op |-> "get_warped_image", given |-> a, layout |-> layout,
                              right |-> right, out |-> out]
                /\ UNCHANGED <<candidate, decoded, max_ratio, image, markers,
                               args, pc, files>>

GuessSize ==
    \E right \in BOOLEAN :
        /\ result' = [op |-> "guess_size", right |-> right,
                      out |-> guess_size(markers, right)]
        /\ UNCHANGED <<candidate, decoded, max_ratio, image, markers, args, pc, files>>

GuessLayouts ==
    \E a \in GuessArgs :
        /\ result' = [op |-> "guess_layouts", args |-> a,
                      out |-> guess_layouts(markers, a.left, a.top, a.right, a.bottom, a.dpi)]
        /\ UNCHANGED <<candidate, decoded, max_ratio, image, markers, args, pc, files>>

NextWarper == SetImage \/ GetWarpedImage \/ GuessSize \/ GuessLayouts

SpecWarper == InitWarper /\ [][NextWarper]_vars

-----------------------------------------------------------------------------
(* cli.py: validate and process.                                           *)

\* float(text) for the texts the command lines below carry
float_of(text) ==
    CASE text = "600.0"  -> Return(R(600))
      [] text = "1200"   -> Return(R(1200))
      [] text = "2400"   -> Return(R(2400))
      [] text = "0"      -> Return(Zero)
      [] text = "0.00"   -> Return(Zero)
      [] text = "6.0"    -> Return(R(6))
      [] text = "-6"     -> Return(R(-6))
      [] text = "9.5"    -> Return(Q(19, 2))
      [] OTHER           -> Raise("ValueError", "could not convert string to float", -1)

\* os.path.splitext(filename)[1].lstrip('.').lower()
ext_of(filename) ==
    CASE filename = "scan.jpg"  -> "jpg"
      [] filename = "gone.jpg"  -> "jpg"
      [] filename = "one.png"   -> "png"
      [] filename = "old.png"   -> "png"
      [] filename = "two.TIF"   -> "tif"
      [] filename = "notes.txt" -> "txt"

opencv_exts == {"bmp", "dib", "jpg", "jpeg", "jpe", "jp2", "png", "webp", "pbm",
                "pgm", "ppm", "sr", "ras", "tiff", "tif"}

\* os.path.realpath of a name relative to the working directory
realpath(filename) == <<"cwd", filename>>

non_existing_image(filename, disk) ==
    IF filename \in DOMAIN disk THEN Raise("SchemaError", "File already exists", -1)
    ELSE IF ext_of(filename) \notin opencv_exts
    THEN Raise("RuntimeError", "Wrong image file extension", -1)
    ELSE Return(realpath(filename))

existing_image(filename, disk) ==
    IF filename = None THEN Raise("SchemaError", "No file given", -1)
    ELSE IF filename \notin DOMAIN disk THEN Raise("SchemaError", "File does not exist", -1)
    ELSE IF ext_of(filename) \notin opencv_exts
    THEN Raise("RuntimeError", "Wrong image file extension", -1)
    ELSE Return(realpath(filename))

Sides == {"left", "right"}
Edges == {"left", "top", "right", "bottom"}

\* Or(None, Use(non_existing_image))
output_ok(filename, disk) ==
    filename = None \/ ~ non_existing_image(filename, disk).raised

\* what schema.validate accepts: every key against its validator
schema_accepts(a, disk) ==
    /\ ~ float_of(a.dpi).raised
    /\ RPos(float_of(a.dpi).value)
    /\ RLeq(float_of(a.dpi).value, R(1200))
    /\ ~ existing_image(a.input_image, disk).raised
    /\ \A k \in Sides \X Edges : ~ float_of(a.offset[k]).raised
    /\ ~ float_of(a.page_height).raised
    /\ ~ float_of(a.page_width).raised
    /\ output_ok(a.output_image_one, disk)
    /\ output_ok(a.output_image_two, disk)

\* the dictionary schema.validate returns
schema_validated(a, disk) ==
    [kind             |-> "validated",
     dpi              |-> float_of(a.dpi).value,
     input_image      |-> realpath(a.input_image),
     no_left_page     |-> a.no_left_page,
     no_right_page    |-> a.no_right_page,
     offset           |-> [k \in Sides \X Edges |-> float_of(a.offset[k]).value],
     page_height      |-> float_of(a.page_height).value,
     page_width       |-> float_of(a.page_width).value,
     output_image_one |-> IF a.output_image_one = None THEN <<None>>
                          ELSE realpath(a.output_image_one),
     output_image_two |-> IF a.output_image_two = None THEN <<None>>
                          ELSE realpath(a.output_image_two)]

\* validate(args): a failing validator makes schema raise SchemaError, then
\* the two checks that an enabled side has its output file
validate(a, disk) ==
    IF ~ schema_accepts(a, disk)
    THEN Raise("SchemaError", "schema", -1)
    ELSE IF ~ (a.no_left_page \/ a.output_image_one # None)
    THEN Raise("RuntimeError",
               "You either have to specify --no-left-page or <output_image_one>", -1)
    ELSE IF ~ (a.no_right_page \/ a.output_image_two # None)
    THEN Raise("RuntimeError",
               "You either have to specify --no-right-page or <output_image_two>", -1)
    ELSE Return(schema_validated(a, disk))

\* cv2.imread: the image stored under the path
imread(path, disk) == disk[path[2]]

\* the LayoutInfo process builds for a side
process_layout(a, side) ==
    LayoutInfo(RAdd(Zero, a.offset[<<side, "left">>]),
               RAdd(Zero, a.offset[<<side, "top">>]),
               RAdd(Zero, a.offset[<<side, "right">>]),
               RAdd(Zero, a.offset[<<side, "bottom">>]),
               a.page_width, a.page_height, a.dpi)

\* the command lines tried: the options as docopt hands them on
DpiTexts == {"600.0", "1200", "2400", "0", "abc"}
WidthTexts == {"6.0", "0", "-6"}
HeightTexts == {"9.5", "0"}
OffsetTexts == {"0.00", "6.0"}

CommandLines ==
    {[kind             |-> "docopt",
      dpi              |-> d,
      input_image      |-> i,
      no_left_page     |-> nl,
      no_right_page    |-> nr,
      offset           |-> [k \in Sides \X Edges |->
                               IF k = <<"left", "left">> THEN o ELSE "0.00"],
      page_height      |-> h,
      page_width       |-> w,
      output_image_one |-> o1,
      output_image_two |-> o2] :
        d \in DpiTexts, i \in {None, "scan.jpg", "gone.jpg"}, nl \in BOOLEAN,
        nr \in BOOLEAN, o \in OffsetTexts, h \in HeightTexts, w \in WidthTexts,
        o1 \in {None, "one.png", "old.png", "notes.txt"}, o2 \in {None, "two.TIF"}}

\* the photographs that may lie on the disk as scan.jpg
Photographs == {Scene(AllIds, Plain), Scene(AllIds, Littered), Scene(0..3, Plain)}

Disk(photo) == ("scan.jpg" :> photo) @@ ("old.png" :> Scene({}, Plain))

-----------------------------------------------------------------------------
(* Specification of the command line: main() = validate, then process.     *)

InitCli ==
    /\ args \in CommandLines
    /\ files \in {Disk(photo) : photo \in Photographs}
    /\ pc = "main"
    /\ max_ratio = NoImage /\ image = NoImage /\ markers = NoMarkers
    /\ result = NoResult
    /\ candidate = NoCandidate /\ decoded = NotDecoded

\* args = validate(args)
Validate ==
    /\ pc = "main"
    /\ result' = [op |-> "validate", given |-> args,
                  raised |-> validate(args, files).raised]
    /\ IF validate(args, files).raised
       THEN pc' = "exit" /\ args' = args
       ELSE pc' = "process" /\ args' = validate(args, files).value
    /\ UNCHANGED <<candidate, decoded, max_ratio, image, markers, files>>

\* process, up to the loop: image = cv2.imread(...); pw = PageWarper(image),
\* whose first parameter is max_ratio
Construct ==
    /\ pc = "process"
    /\ max_ratio' = imread(args.input_image, files)
    /\ image' = NoImage
    /\ markers' = NoMarkers
    /\ pc' = "left"
    /\ UNCHANGED <<candidate, decoded, result, args, files>>

\* one turn of the loop of process over the sides; an exception of
\* get_warped_image ends the program
WarpPage ==
    /\ pc \in Sides
    /\ IF (pc = "left" /\ args.no_left_page) \/ (pc = "right" /\ args.no_right_page)
       THEN /\ pc' = IF pc = "left" THEN "right" ELSE "done"
            /\ UNCHANGED <<result, files>>
       ELSE \E out \in get_warped_image(markers, image, process_layout(args, pc),
                                        pc = "right") :
                /\ result' = [op |-> "get_warped_image", layout |-> process_layout(args, pc),
                              right |-> (pc = "right"), out |-> out]
                /\ IF out.raised
                   THEN pc' = "crashed" /\ files' = files
                   ELSE /\ pc' = IF pc = "left" THEN "right" ELSE "done"
                        /\ files' = ((IF pc = "left" THEN args.output_image_one
                                      ELSE args.output_image_two)[2] :> out.value) @@ files
    /\ UNCHANGED <<candidate, decoded, max_ratio, image, markers, args>>

NextCli == Validate \/ Construct \/ WarpPage

SpecCli == InitCli /\ [][NextCli]_vars

-----------------------------------------------------------------------------
(* Specification of Marker.create on one candidate.                        *)

InitMarker ==
    /\ candidate \in {Candidate(p, k, d, 0, 10, 20, 30) :
                        p \in 0..15, k \in 0..3, d \in Defects}
    /\ decoded = NotDecoded
    /\ max_ratio = Float(Q(22, 10)) /\ image = NoImage /\ markers = NoMarkers
    /\ result = NoResult /\ args = NoArgs /\ pc = "idle" /\ files = NoFiles

Create ==
    /\ candidate.kind = "square"
    /\ decoded.op = None
    /\ decoded' = [op |-> "create", out |-> Marker_create(candidate)]
    /\ UNCHANGED <<candidate, max_ratio, image, markers, result, args, pc, files>>

NextMarker == Create

SpecMarker == InitMarker /\ [][NextMarker]_vars

-----------------------------------------------------------------------------
(* Claims about Marker.create (checked under SpecMarker).                  *)

Decoded == decoded.op = "create"
DecodedOk == Decoded /\ ~decoded.out.raised

\* the id Marker.create gives the upright, undamaged glyph of a payload
IdOfPattern(w) == Marker_create(Candidate(w, 0, {}, 0, 10, 20, 30)).value.id

OrientationPlaces == {<<1, 1>>, <<1, 4>>, <<4, 4>>, <<4, 1>>}

\* C4: decoding a well-formed glyph turned by k quarter turns gives the id of
\* the upright glyph and the rotation class k (black orientation cell at
\* top-left -> 0, top-right -> 1, bottom-right -> 2, bottom-left -> 3), and
\* the grid as normalized has its black orientation cell at (1,1).
C4_RotationInvariant ==
    (Decoded /\ candidate.glyph.damage = {}) =>
        /\ ~decoded.out.raised
        /\ decoded.out.value.id = IdOfPattern(candidate.glyph.payload)
        /\ decoded.out.value.rotation = candidate.glyph.turns
        /\ candidate.patch[<<1, 1>>] = 0 => decoded.out.value.rotation = 0
        /\ candidate.patch[<<1, 4>>] = 0 => decoded.out.value.rotation = 1
        /\ candidate.patch[<<4, 4>>] = 0 => decoded.out.value.rotation = 2
        /\ candidate.patch[<<4, 1>>] = 0 => decoded.out.value.rotation = 3
        /\ LET g == normalize(candidate.patch, decoded.out.value.rotation)
           IN  \A c \in OrientationPlaces : (g[c] = 0) <=> (c = <<1, 1>>)

C4_Witness ==
    /\ DecodedOk
    /\ candidate.glyph.damage = {}
    /\ candidate.glyph.turns = 1
    /\ candidate.glyph.payload = 1
    /\ candidate.patch[<<1, 4>>] = 0
    /\ decoded.out.value.rotation = 1
    /\ decoded.out.value.id = 2

\* the central 2x2 block read in raster order, black = 1, (2,2) first
RasterValue(g) ==
    8 * (IF g[<<2, 2>>] = 0 THEN 1 ELSE 0) + 4 * (IF g[<<2, 3>>] = 0 THEN 1 ELSE 0)
    + 2 * (IF g[<<3, 2>>] = 0 THEN 1 ELSE 0) + (IF g[<<3, 3>>] = 0 THEN 1 ELSE 0)

\* C5: the decoded id is id_lookup at the raster value of the central 2x2
\* block, and pattern -> id is a bijection of 0..15: ids lie in 0..15, no
\* other pattern gives the decoded id, every id has a pattern.
C5_PayloadBijection ==
    DecodedOk =>
        LET m == decoded.out.value
            v == RasterValue(normalize(candidate.patch, m.rotation))
        IN  /\ m.id \in 0..15
            /\ m.id = id_lookup[v + 1]
            /\ \A w \in 0..15 : (IdOfPattern(w) = m.id) => (w = v)
            /\ \A i \in 0..15 : \E w \in 0..15 : IdOfPattern(w) = i

C5_Witness ==
    /\ DecodedOk
    /\ candidate.glyph.damage = {}
    /\ candidate.glyph.payload = 14
    /\ decoded.out.value.id = 3

BorderBlack(g) == \A c \in Cells : (c[1] \in {0, 5} \/ c[2] \in {0, 5}) => g[c] = 0
InnerWhite(g) ==
    \A c \in {<<1, 2>>, <<1, 3>>, <<4, 2>>, <<4, 3>>,
              <<2, 1>>, <<3, 1>>, <<2, 4>>, <<3, 4>>} : g[c] = 255
OneOrientation(g) == Cardinality({c \in OrientationPlaces : g[c] = 0}) = 1

\* C6: a binarized grid decodes to an id exactly when its outer ring is
\* black, its eight inner-ring cells off the orientation places are white
\* and exactly one orientation cell is black; otherwise a RuntimeError is
\* raised whose kind names a condition that fails, and no id is produced.
C6_StructureDecides ==
    Decoded =>
        LET g == candidate.patch
            o == decoded.out
        IN  /\ ~o.raised <=> (BorderBlack(g) /\ InnerWhite(g) /\ OneOrientation(g))
            /\ o.raised =>
                /\ o.type = "RuntimeError"
                /\ o.error = "Marker doesnt have a black border" => ~BorderBlack(g)
                /\ o.error = "Marker doesnt have a white inner" => ~InnerWhite(g)
                /\ o.error = "Multiple or no orientation markers found" => ~OneOrientation(g)
                /\ o.error \in {"Marker doesnt have a black border",
                                "Marker doesnt have a white inner",
                                "Multiple or no orientation markers found"}
            /\ ~o.raised => o.value.id \in 0..15

C6_Witness ==
    /\ Decoded
    /\ decoded.out.raised
    /\ decoded.out.error = "Multiple or no orientation markers found"
    /\ BorderBlack(candidate.patch)
    /\ InnerWhite(candidate.patch)
    /\ Cardinality({c \in OrientationPlaces : candidate.patch[c] = 0}) = 3

-----------------------------------------------------------------------------
(* Claims about PageWarper (checked under SpecWarper).                     *)

Required(right) == IF right THEN 4..7 ELSE 0..3
Restrict(f, S) == [k \in DOMAIN f \cap S |-> f[k]]
Least(S) == CHOOSE x \in S : \A y \in S : x <= y

IsMissingMarker(out) ==
    /\ out.raised
    /\ out.type = "RuntimeError"
    /\ out.error = "Index {0} does not exist in source markers"

\* C1 as stated: get_warped_image and guess_size fail with the
\* missing-marker RuntimeError exactly when one of the four ids of the side
\* is absent from the marker-set; the ids the error identifies are the
\* required ids that are absent, all of them (5 when only 5 is absent); a
\* failure carries no image or size; and the outcome for a side does not
\* depend on which ids of the other side are present.
C1_IdentifiesMissing ==
    result.op \in {"get_warped_image", "guess_size"} =>
        LET out  == result.out
            miss == Required(result.right) \ DOMAIN markers
            own  == Restrict(markers, Required(result.right))
        IN  /\ IsMissingMarker(out) <=> (miss # {})
            /\ IsMissingMarker(out) =>
                /\ {out.index} = miss
                /\ "value" \notin DOMAIN out
            /\ result.op = "get_warped_image" =>
                out \in get_warped_image(own, image, result.layout, result.right)
            /\ result.op = "guess_size" =>
                out = guess_size(own, result.right)

\* The part of C1 that holds, with the error naming one absent id only:
\* C1: get_warped_image and guess_size fail with the missing-marker
\* RuntimeError exactly when one of the four ids of the side is absent from
\* the marker-set; the error names an absent required id (the first in the
\* order 0..3 / 4..7, so 5 when only 5 is absent); a failure carries no
\* image or size; and the outcome is the one obtained from the marker-set
\* cut down to the side's own four ids, whatever the other ids are.
C1_MissingMarker ==
    result.op \in {"get_warped_image", "guess_size"} =>
        LET out  == result.out
            miss == Required(result.right) \ DOMAIN markers
            own  == Restrict(markers, Required(result.right))
        IN  /\ IsMissingMarker(out) <=> (miss # {})
            /\ IsMissingMarker(out) =>
                /\ out.index \in miss
                /\ out.index = Least(miss)
                /\ "value" \notin DOMAIN out
            /\ result.op = "get_warped_image" =>
                /\ out \in get_warped_image(own, image, result.layout, result.right)
                /\ \A T \in SUBSET (AllIds \ Required(result.right)) :
                       get_warped_image(Restrict(markers, Required(result.right) \cup T),
                                        image, result.layout, result.right)
                       = get_warped_image(own, image, result.layout, result.right)
            /\ result.op = "guess_size" =>
                out = guess_size(own, result.right)

C1_Witness ==
    /\ result.op = "guess_size"
    /\ result.right
    /\ DOMAIN markers = AllIds \ {5}
    /\ IsMissingMarker(result.out)
    /\ result.out.index = 5

\* the indices of the squares of the image that decode, and their ids
Decodable(img) == {i \in 1..Len(img.squares) : ~Marker_create(img.squares[i]).raised}
IdAt(img, i) == Marker_create(img.squares[i]).value.id
Greatest(S) == CHOOSE x \in S : \A y \in S : x >= y

\* C3: the marker-set is the mapping of the image set last: its keys are
\* the ids (within 0..15) of the squares of that image that decode, each key
\* k holds a Marker of id k, namely the one of the last square decoding to
\* k; squares that raise are dropped; nothing else is in it.  Without an
\* image the marker-set is empty.
C3_MarkerSetOfLastImage ==
    IF image.type = "NoneType" THEN markers = NoMarkers
    ELSE /\ DOMAIN markers = {IdAt(image, i) : i \in Decodable(image)}
         /\ DOMAIN markers \subseteq 0..15
         /\ \A k \in DOMAIN markers :
                /\ markers[k].id = k
                /\ markers[k] =
                     Marker_create(image.squares[
                         Greatest({i \in Decodable(image) : IdAt(image, i) = k})]).value

C3_Witness ==
    /\ result.op = "set_image"
    /\ image = Scene(AllIds \ {5}, Doubled)
    /\ DOMAIN markers = AllIds \ {5}
    /\ Len(image.squares) = 14
    /\ markers[0] = Marker_create(image.squares[2]).value
    /\ markers[0] # Marker_create(image.squares[1]).value

\* an integer within one half of x
IsNearest(n, x) == RLeq(RAbs(RSub(R(n), x)), Half)

\* C7: get_size() of the LayoutInfo built from the given margins, width,
\* height and dpi is (round((right + width - left) * dpi),
\* round((bottom + height - top) * dpi)), each the nearest integer; with all
\* offsets zero it is (round(width * dpi), round(height * dpi)), (3600, 5700)
\* for 6 x 9.5 at 600 dpi; and an image returned by get_warped_image has
\* exactly these dimensions.
C7_OutputSize ==
    result.op = "get_warped_image" =>
        LET a  == result.given
            sz == get_size(result.layout)
        IN  /\ IsNearest(sz[1], RMul(RSub(RAdd(a.right, a.width), a.left), a.dpi))
            /\ IsNearest(sz[2], RMul(RSub(RAdd(a.bottom, a.height), a.top), a.dpi))
            /\ (a.left = Zero /\ a.top = Zero /\ a.right = Zero /\ a.bottom = Zero) =>
                   sz = <<PyRound(RMul(a.width, a.dpi)), PyRound(RMul(a.height, a.dpi))>>
            /\ a = LayoutArgs(Zero, Zero, Zero, Zero, R(6), Q(19, 2), R(600)) =>
                   sz = <<3600, 5700>>
            /\ ~ result.out.raised => result.out.value.shape = sz

\* C9: with all of the ids 0..7 in the marker-set guess_layouts returns two
\* LayoutInfo, left page first, whose common height is the average of the
\* heights guess_size estimates for the two sides, each with the width
\* estimated for its own side, both with the given margins and dpi; with
\* any of the ids 0..7 absent it raises the missing-marker error of an
\* absent id and returns nothing.
C9_GuessLayouts ==
    result.op = "guess_layouts" =>
        LET out == result.out
            a   == result.args
            ls  == guess_size(markers, FALSE)
            rs  == guess_size(markers, TRUE)
        IN  /\ (AllIds \subseteq DOMAIN markers) =>
                /\ ~ out.raised /\ ~ ls.raised /\ ~ rs.raised
                /\ Len(out.value) = 2
                /\ out.value[1].height = out.value[2].height
                /\ out.value[1].height =
                       RDiv(RAdd(ls.value[1][2], rs.value[1][2]), R(2))
                /\ out.value[1].width = ls.value[1][1]
                /\ out.value[2].width = rs.value[1][1]
                /\ \A i \in 1..2 :
                       /\ out.value[i].left = a.left
                       /\ out.value[i].top = a.top
                       /\ out.value[i].right = RAdd(a.right, out.value[i].width)
                       /\ out.value[i].bottom = RAdd(a.bottom, out.value[i].height)
                       /\ out.value[i].dpi = a.dpi
            /\ ~ (AllIds \subseteq DOMAIN markers) =>
                /\ IsMissingMarker(out)
                /\ out.index \in AllIds \ DOMAIN markers
                /\ "value" \notin DOMAIN out

C9_Witness ==
    /\ result.op = "guess_layouts"
    /\ AllIds \subseteq DOMAIN markers
    /\ ~ result.out.raised
    /\ guess_size(markers, FALSE).value[1] = <<R(6), Q(19, 2)>>
    /\ guess_size(markers, TRUE).value[1] = <<R(5), R(9)>>
    /\ result.out.value[1].width = R(6)
    /\ result.out.value[2].width = R(5)
    /\ result.out.value[1].height = Q(37, 4)
    /\ result.out.value[2].height = Q(37, 4)

\* the cell of the 6x6 grid in whose corner the point p of the canonical
\* patch lies (p = (x, y), the cell is (row, column))
CornerCell(p) ==
    <<PyRound(RDiv(RMul(p[2], R(5)), R(size))), PyRound(RDiv(RMul(p[1], R(5)), R(size)))>>

\* where the cell c of the sampled grid lies in the normalized grid
PlaceAfter(c, rotation) ==
    CHOOSE x \in Cells :
        normalize([y \in Cells |-> IF y = c THEN 0 ELSE 255], rotation)[x] = 0

\* the corners of the normalized grid that points[0..3] of the Marker
\* decoded from a candidate lie at
NormalizedCorners(cand) ==
    LET m == Marker_create(cand).value
    IN  [i \in 1..4 |-> PlaceAfter(CornerCell(ApplyH(m.homography, m.points[i])),
                                   m.rotation)]

\* the orientation place of the sampled grid next to its corner cell c
NextTo(c) == <<IF c[1] = 0 THEN 1 ELSE 4, IF c[2] = 0 THEN 1 ELSE 4>>

\* points[0] lies at the corner next to the black orientation cell
StartsAtOrientation(cand) ==
    LET m == Marker_create(cand).value
    IN  cand.patch[NextTo(CornerCell(ApplyH(m.homography, m.points[1])))] = 0

\* get_warped_image takes points[0] as the position of a marker: the
\* homography of the returned image carries it to the target of its id
WarpsFirstCorner ==
    (result.op = "get_warped_image" /\ ~ result.out.raised
                                    /\ result.out.value.homography.kind = "affine") =>
        LET dst == get_dst_markers(result.layout, result.right)
        IN  \A c \in 1..4 :
                ApplyH(result.out.value.homography, markers[dst[c][1]].points[1])
                = convert_marker(result.layout, dst[c][2])

\* C10 as stated: the corners of every decoded Marker start next to the
\* orientation cell and go top-left, top-right, bottom-right, bottom-left
\* round the normalized grid, and points[0] is the position used.
C10_ClockwiseCorners ==
    image.type = "ndarray" =>
        /\ \A i \in Decodable(image) :
               /\ StartsAtOrientation(image.squares[i])
               /\ NormalizedCorners(image.squares[i])
                  = <<<<0, 0>>, <<0, 5>>, <<5, 5>>, <<5, 0>>>>
        /\ WarpsFirstCorner

\* C10 amended: in each rotation class the corners of every decoded Marker
\* start next to the orientation cell and go top-left, bottom-left,
\* bottom-right, top-right round the normalized grid ((row, column) =
\* (0,0), (5,0), (5,5), (0,5)); points[0] is the position get_warped_image
\* uses.
C10_CornerOrder ==
    image.type = "ndarray" =>
        /\ \A i \in Decodable(image) :
               /\ StartsAtOrientation(image.squares[i])
               /\ NormalizedCorners(image.squares[i])
                  = <<<<0, 0>>, <<5, 0>>, <<5, 5>>, <<0, 5>>>>
        /\ WarpsFirstCorner

C10_Witness ==
    /\ image = Scene(AllIds, Littered)
    /\ result.op = "get_warped_image"
    /\ ~ result.out.raised
    /\ markers[0].rotation = 1
    /\ markers[0].points[1] # image.squares[17].square[1]
    /\ markers[0] = Marker_create(image.squares[17]).value
    /\ NormalizedCorners(image.squares[17]) = <<<<0, 0>>, <<5, 0>>, <<5, 5>>, <<0, 5>>>>

\* the physical target of a marker id in a layout: the page corners in the
\* order top-left, top-right, bottom-right, bottom-left for ids 0..3 (4..7)
TargetOf(layout, id) ==
    CASE id % 4 = 0 -> <<Zero, Zero>>
      [] id % 4 = 1 -> <<layout.width, Zero>>
      [] id % 4 = 2 -> <<layout.width, layout.height>>
      [] id % 4 = 3 -> <<Zero, layout.height>>

\* the target in pixels: ((x - left) * dpi, (y - top) * dpi)
TargetPixel(layout, id) ==
    <<RMul(RSub(TargetOf(layout, id)[1], layout.left), layout.dpi),
      RMul(RSub(TargetOf(layout, id)[2], layout.top), layout.dpi)>>

\* a page image was returned, and its homography is one the model computes
Warped ==
    /\ result.op = "get_warped_image"
    /\ ~ result.out.raised
    /\ result.out.value.homography.kind = "affine"

\* C11 as stated: for the four ids of the side the target pixel point of the
\* id is paired with the first corner of the Marker under that id, the
\* homography takes each target pixel point to the detected point (from the
\* target frame to the source frame), and the source image is warped
\* through it.
C11_TargetToSource ==
    Warped =>
        /\ Required(result.right) \subseteq DOMAIN markers
        /\ \A id \in Required(result.right) :
               ApplyH(result.out.value.homography, TargetPixel(result.layout, id))
               = markers[id].points[1]
        /\ result.out.value.source_shape = image.shape

\* C11 amended: the same pairing, and the homography takes each detected
\* point (the first corner of the Marker of the id) to the target pixel
\* point of that id (from the source frame to the target frame); it is the
\* one estimated from these four pairs, and the source image is warped
\* through it.
C11_SourceToTarget ==
    Warped =>
        /\ Required(result.right) \subseteq DOMAIN markers
        /\ \A id \in Required(result.right) :
               ApplyH(result.out.value.homography, markers[id].points[1])
               = TargetPixel(result.layout, id)
        /\ result.out.value.homography =
               findHomography(
                   [c \in 1..4 |-> markers[c - 1 + Least(Required(result.right))].points[1]],
                   [c \in 1..4 |-> TargetPixel(result.layout,
                                               c - 1 + Least(Required(result.right)))])
        /\ result.out.value.source_shape = image.shape

C11_Witness ==
    /\ Warped
    /\ result.right
    /\ result.layout.left = Q(-1, 2)
    /\ result.layout.top = Q(1, 4)
    /\ result.layout.dpi = R(2)
    /\ TargetPixel(result.layout, 5) = <<Q(7, 2), Q(-1, 2)>>
    /\ ApplyH(result.out.value.homography, markers[5].points[1]) = <<Q(7, 2), Q(-1, 2)>>
    /\ ApplyH(result.out.value.homography, <<Q(7, 2), Q(-1, 2)>>) # markers[5].points[1]

-----------------------------------------------------------------------------
(* Claims about the command line (checked under SpecCli).                  *)

\* the photograph the command line names
InputPhotograph == files["scan.jpg"]

\* C2: once process has built its PageWarper, the warper holds the input
\* image and the marker-set built from it, so a side whose four markers
\* decode in the input image is warped with those four ids in the marker-set
\* and does not fail with the missing-marker error.
C2_MarkersBuiltBeforeWarp ==
    (pc \in {"left", "right", "done", "crashed"}) =>
        /\ image = InputPhotograph
        /\ markers = build_markers(InputPhotograph)
        /\ (/\ result.op = "get_warped_image"
            /\ Required(result.right) \subseteq DOMAIN build_markers(InputPhotograph)) =>
               /\ Required(result.right) \subseteq DOMAIN markers
               /\ ~ IsMissingMarker(result.out)

\* C8: every LayoutInfo handed to get_warped_image, and both LayoutInfo
\* returned by guess_layouts, have dpi > 0, width > 0 and height > 0.
C8_LayoutPositive ==
    /\ result.op = "get_warped_image" =>
           /\ RPos(result.layout.dpi)
           /\ RPos(result.layout.width)
           /\ RPos(result.layout.height)
    /\ (result.op = "guess_layouts" /\ ~ result.out.raised) =>
           \A i \in 1..2 : /\ RPos(result.out.value[i].dpi)
                           /\ RPos(result.out.value[i].width)
                           /\ RPos(result.out.value[i].height)

=============================================================================
